---- MODULE Spec2Model ----
(***************************************************************************)
(* Model of SelfieRecordsSDK (src/src/main.rs): the batch resolver         *)
(* get_records, its two identifier validators, the query-name derivation   *)
(* and the shared resolver configuration.                                  *)
(*                                                                         *)
(* Text.  An identifier and a nameserver argument are sequences of         *)
(* one-character strings, so that the regular expressions, split('@') and  *)
(* the IPv4 parser are computed character by character.  Text produced by  *)
(* format! is the concatenation of its pieces; a string literal of the     *)
(* source and a record key are one piece each.                             *)
(*                                                                         *)
(* Library calls are modelled by their meaning: Regex::new(p).is_match by  *)
(* the language of the pattern p (the look-ahead of line 111 included),    *)
(* Resolver::update_nameservers by replacing the resolver's nameserver     *)
(* configuration, Resolver::txt_lookup by a query sent to the nameservers  *)
(* configured at that moment, answered by the environment.                 *)
(***************************************************************************)
EXTENDS Integers, Sequences, FiniteSets, TLC

VARIABLES config, call, thr

vars == <<config, call, thr>>

(***************************************************************************)
(* Bounds of the model.                                                    *)
(***************************************************************************)
MaxLen == 5       \* longest identifier, in characters
MaxKeys == 2      \* longest caller-supplied key list
MaxRecs == 2      \* most TXT records in one answer

(***************************************************************************)
(* Option<T>                                                               *)
(***************************************************************************)
None == <<"None">>
Some(x) == <<"Some", x>>
IsSome(o) == o[1] = "Some"
Unwrap(o) == o[2]
UnwrapOr(o, d) == IF IsSome(o) THEN o[2] ELSE d

(***************************************************************************)
(* Text helpers.                                                           *)
(***************************************************************************)
SeqsUpTo(S, n) == UNION {[1..m -> S] : m \in 0..n}

Range(s) == {s[i] : i \in 1..Len(s)}

\* the characters of s from position a to position b (empty when a > b)
Slice(s, a, b) == IF a > b THEN <<>> ELSE SubSeq(s, a, b)

\* position of the first occurrence of character c in s, 0 when absent
RECURSIVE IndexOf(_, _, _)
IndexOf(s, c, from) ==
    IF from > Len(s) THEN 0
    ELSE IF s[from] = c THEN from
    ELSE IndexOf(s, c, from + 1)

\* str::split(c): the pieces of s between the occurrences of c
RECURSIVE Split(_, _)
Split(s, c) ==
    LET p == IndexOf(s, c, 1)
    IN  IF p = 0 THEN <<s>>
        ELSE <<Slice(s, 1, p - 1)>> \o Split(Slice(s, p + 1, Len(s)), c)

\* str::contains(c)
Contains(s, c) == c \in Range(s)

\* [String]::join(sep)
RECURSIVE Join(_, _)
Join(parts, sep) ==
    IF Len(parts) = 0 THEN <<>>
    ELSE IF Len(parts) = 1 THEN parts[1]
    ELSE parts[1] \o sep \o Join(Tail(parts), sep)

(***************************************************************************)
(* Character classes of the two patterns.                                  *)
(***************************************************************************)
Lower == {"a","b","c","d","e","f","g","h","i","j","k","l","m",
          "n","o","p","q","r","s","t","u","v","w","x","y","z"}
Upper == {"A","B","C","D","E","F","G","H","I","J","K","L","M",
          "N","O","P","Q","R","S","T","U","V","W","X","Y","Z"}
Digit == {"0","1","2","3","4","5","6","7","8","9"}

\* [a-zA-Z0-9-_]
LabelChar == Lower \cup Upper \cup Digit \cup {"-", "_"}

\* \s
Whitespace == {" ", "\t", "\n", "\r", "\f"}

\* [^\s@]
IsAtomChar(c) == c \notin Whitespace /\ c # "@"

\* .  (any character but a line feed)
IsAnyChar(c) == c # "\n"

IsLabelChar(c) == c \in LabelChar

\* every character of s from position a to position b is of the class
AllLabelChars(s, a, b) == \A i \in a..b : IsLabelChar(s[i])
AllAtomChars(s, a, b) == \A i \in a..b : IsAtomChar(s[i])
AllAnyChars(s, a, b) == \A i \in a..b : IsAnyChar(s[i])

\* [a-zA-Z0-9-_]+(\.[a-zA-Z0-9-_]+)+ matches the whole of s: labels joined
\* by single dots, at least two of them
MatchesDottedLabels(s) ==
    LET labels == Split(s, ".")
    IN  /\ Len(labels) >= 2
        /\ \A i \in 1..Len(labels) :
              /\ Len(labels[i]) >= 1
              /\ AllLabelChars(labels[i], 1, Len(labels[i]))

\* (?!:\/\/) at the start of s
NotUriScheme(s) == ~(Len(s) >= 3 /\ Slice(s, 1, 3) = <<":", "/", "/">>)

\* ^(?!:\/\/)([a-zA-Z0-9-_]+(\.[a-zA-Z0-9-_]+)+.*)$
DomainRegexIsMatch(s) ==
    /\ NotUriScheme(s)
    /\ \E p \in 1..Len(s) :
          /\ MatchesDottedLabels(Slice(s, 1, p))
          /\ AllAnyChars(s, p + 1, Len(s))

\* ^[^\s@]+@[^\s@]+\.[^\s@]+$
EmailRegexIsMatch(s) ==
    \E i \in 1..Len(s) : \E j \in 1..Len(s) :
        /\ 1 < i /\ i + 1 < j /\ j < Len(s)
        /\ s[i] = "@" /\ s[j] = "."
        /\ AllAtomChars(s, 1, i - 1)
        /\ AllAtomChars(s, i + 1, j - 1)
        /\ AllAtomChars(s, j + 1, Len(s))

(***************************************************************************)
(* Result<T, E> and HashMap                                                *)
(***************************************************************************)
Ok(x) == <<"Ok", x>>
Err(e) == <<"Err", e>>
IsOk(r) == r[1] = "Ok"

\* HashMap::new()
EmptyMap == <<>>

\* HashMap::insert(k, v): the entry for k is added or replaced
Insert(m, k, v) == [x \in (DOMAIN m) \cup {k} |-> IF x = k THEN v ELSE m[x]]

(***************************************************************************)
(* line 9                                                                  *)
(***************************************************************************)
DEFAULT_RECORDS == <<"bitcoin-payment", "pgp", "nostr", "node-uri">>

\* a string literal of the source, and a key put into a format! template
Lit(str) == <<str>>

(***************************************************************************)
(* validate_email_address, lines 101-108                                   *)
(***************************************************************************)
validate_email_address(key, name) ==
    IF ~EmailRegexIsMatch(name)
    THEN Some(Lit("Invalid email name for key: ") \o Lit(key))
    ELSE None

(***************************************************************************)
(* validate_domain_or_subdomain, lines 110-117                             *)
(***************************************************************************)
validate_domain_or_subdomain(key, name) ==
    IF ~DomainRegexIsMatch(name)
    THEN Some(Lit("Invalid domain or subdomain name for key: ") \o Lit(key))
    ELSE None

(***************************************************************************)
(* get_txt_record_key, lines 92-99                                         *)
(***************************************************************************)
get_txt_record_key(name, key) ==
    IF Contains(name, "@")
    THEN LET parts == Split(name, "@")
         IN  parts[1] \o <<".", "u", "s", "e", "r", ".", "_">> \o Lit(key)
                 \o <<".">> \o parts[2]
    ELSE <<"_">> \o Lit(key) \o <<".">> \o name

\* handle_error with the message stored under "value" as well
handle_error_both(key, error) ==
    LET m1 == Insert(EmptyMap, "value", Some(error))
    IN  Insert(m1, "error", Some(error))

(***************************************************************************)
(* handle_error, lines 119-124                                             *)
(***************************************************************************)
handle_error(key, error) ==
    LET m1 == Insert(EmptyMap, "value", None)
    IN  Insert(m1, "error", Some(error))

(***************************************************************************)
(* Ipv4Addr::from_str, line 35: four decimal octets 0..255 separated by    *)
(* dots, one to three digits each, no leading zero.                        *)
(***************************************************************************)
DigitSeq == <<"0", "1", "2", "3", "4", "5", "6", "7", "8", "9">>

DigitVal(c) == CHOOSE n \in 0..9 : DigitSeq[n + 1] = c

RECURSIVE DecimalVal(_)
DecimalVal(s) ==
    IF Len(s) = 0 THEN 0
    ELSE 10 * DecimalVal(Slice(s, 1, Len(s) - 1)) + DigitVal(s[Len(s)])

IsOctet(s) ==
    /\ Len(s) \in 1..3
    /\ \A i \in 1..Len(s) : s[i] \in Digit
    /\ (Len(s) > 1 => s[1] # "0")
    /\ DecimalVal(s) <= 255

Ipv4Addr_from_str(s) ==
    LET parts == Split(s, ".")
    IN  IF Len(parts) = 4 /\ \A i \in 1..4 : IsOctet(parts[i])
        THEN Ok([i \in 1..4 |-> DecimalVal(parts[i])])
        ELSE Err("AddrParseError")

(***************************************************************************)
(* The resolver configuration.                                             *)
(***************************************************************************)
DnsPort == 53

\* NameServerConfig { socket_addr: (ip, 53).into(), protocol, .. }
NameServerConfig(ip, protocol) ==
    [socket_addr |-> <<ip, DnsPort>>, protocol |-> protocol,
     tls_dns_name |-> None, trust_anchor |-> None, tls_config |-> None]

\* ResolverConfig::from_parts(None, vec![..]), lines 36-42
ResolverConfig_from_parts(domain, name_servers) ==
    [domain |-> domain, name_servers |-> name_servers]

\* ResolverConfig::default(), line 24: the library's public default, the
\* Google resolvers over UDP and TCP
ResolverConfig_default ==
    ResolverConfig_from_parts(None,
        << NameServerConfig(<<8, 8, 8, 8>>, "Udp"), NameServerConfig(<<8, 8, 8, 8>>, "Tcp"),
           NameServerConfig(<<8, 8, 4, 4>>, "Udp"), NameServerConfig(<<8, 8, 4, 4>>, "Tcp") >>)

\* update_nameservers falling back to the default configuration when the
\* argument does not parse
update_nameservers_reset(cfg, dns_server) ==
    LET server == UnwrapOr(dns_server, <<"8", ".", "8", ".", "8", ".", "8">>)
        parsed == Ipv4Addr_from_str(server)
    IN  IF IsOk(parsed)
        THEN ResolverConfig_from_parts(None, <<NameServerConfig(parsed[2], "Udp")>>)
        ELSE ResolverConfig_default

\* update_nameservers applying only the built-in default, not the argument
update_nameservers_stale(cfg, dns_server) ==
    IF IsSome(dns_server)
    THEN cfg
    ELSE ResolverConfig_from_parts(None, <<NameServerConfig(<<8, 8, 8, 8>>, "Udp")>>)

\* lines 30 and 35-43: the configuration after the nameserver argument is
\* applied to configuration cfg
update_nameservers(cfg, dns_server) ==
    LET server == UnwrapOr(dns_server, <<"8", ".", "8", ".", "8", ".", "8">>)
        parsed == Ipv4Addr_from_str(server)
    IN  IF IsOk(parsed)
        THEN ResolverConfig_from_parts(None, <<NameServerConfig(parsed[2], "Udp")>>)
        ELSE cfg

(***************************************************************************)
(* resolve_txt, lines 85-90.  answer is what the nameservers of cfg return *)
(* for the query: Ok(records), each record a sequence of character-strings,*)
(* or Err(e).  A record's to_string() is its character-strings in a row.   *)
(***************************************************************************)
Txt_to_string(txt) == Join(txt, <<>>)

resolve_txt(name, answer) ==
    IF IsOk(answer)
    THEN Ok([i \in 1..Len(answer[2]) |-> Txt_to_string(answer[2][i])])
    ELSE Err(Lit("Error resolving TXT record for ") \o name \o Lit(": ")
                 \o Lit(answer[2]))

(***************************************************************************)
(* get_records, lines 45-80: one iteration of the loop over the keys.      *)
(* st = [results, lookups]; lookups is the log of the TXT queries sent.    *)
(***************************************************************************)
ValidationFails(domain_check, email_check) ==
    IsSome(domain_check) /\ IsSome(email_check)

\* lines 50-52 with the email message taking priority
ValidationErrorMap_email_first(domain_check, email_check) ==
    LET m1 == Insert(EmptyMap, "value", None)
    IN  Insert(m1, "error", Some(UnwrapOr(email_check, Unwrap(domain_check))))

\* lines 50-52
ValidationErrorMap(domain_check, email_check) ==
    LET m1 == Insert(EmptyMap, "value", None)
    IN  Insert(m1, "error", Some(UnwrapOr(domain_check, Unwrap(email_check))))

\* lines 61-79 with the records joined by a comma
LookupOutcomeMap_comma(key, resolved) ==
    IF IsOk(resolved)
    THEN IF Len(resolved[2]) = 0
         THEN LET m1 == Insert(EmptyMap, "value", None)
              IN  Insert(m1, "error", Some(Lit("No TXT records found")))
         ELSE LET value == Join(resolved[2], <<",">>)
                  m1 == Insert(EmptyMap, "value", Some(value))
              IN  Insert(m1, "error", None)
    ELSE handle_error(key, resolved[2])

\* lines 61-79
LookupOutcomeMap(key, resolved) ==
    IF IsOk(resolved)
    THEN IF Len(resolved[2]) = 0
         THEN LET m1 == Insert(EmptyMap, "value", None)
              IN  Insert(m1, "error", Some(Lit("No TXT records found")))
         ELSE LET value == Join(resolved[2], <<" ">>)
                  m1 == Insert(EmptyMap, "value", Some(value))
              IN  Insert(m1, "error", None)
    ELSE handle_error(key, resolved[2])

\* the loop body leaving a key whose lookup failed out of the map
LoopBody_skip_failed(st, cfg, name, key, answer) ==
    LET domain_check == validate_domain_or_subdomain(key, name)
        email_check == validate_email_address(key, name)
    IN  IF ValidationFails(domain_check, email_check)
        THEN [st EXCEPT !.results =
                 Insert(@, key, ValidationErrorMap(domain_check, email_check))]
        ELSE LET domain_name == get_txt_record_key(name, key)
                 resolved == resolve_txt(domain_name, answer)
             IN  [results |-> IF IsOk(resolved)
                              THEN Insert(st.results, key, LookupOutcomeMap(key, resolved))
                              ELSE st.results,
                  lookups |-> Append(st.lookups,
                                  [key |-> key, name |-> domain_name,
                                   name_servers |-> cfg.name_servers,
                                   answer |-> answer])]

LoopBody(st, cfg, name, key, answer) ==
    LET domain_check == validate_domain_or_subdomain(key, name)
        email_check == validate_email_address(key, name)
    IN  IF ValidationFails(domain_check, email_check)
        THEN [st EXCEPT !.results =
                 Insert(@, key, ValidationErrorMap(domain_check, email_check))]
        ELSE LET domain_name == get_txt_record_key(name, key)
                 resolved == resolve_txt(domain_name, answer)
             IN  [results |-> Insert(st.results, key, LookupOutcomeMap(key, resolved)),
                  lookups |-> Append(st.lookups,
                                  [key |-> key, name |-> domain_name,
                                   name_servers |-> cfg.name_servers,
                                   answer |-> answer])]

\* lines 45-80: the loop from key number i on; each lookup takes the next
\* answer of the environment, answers[Len(st.lookups) + 1]
RECURSIVE ForLoop(_, _, _, _, _, _)
ForLoop(st, cfg, name, filters, i, answers) ==
    IF i > Len(filters) THEN st
    ELSE LET n == Len(st.lookups) + 1
             answer == IF n <= Len(answers) THEN answers[n] ELSE Err("no answer")
         IN  CHOOSE r \in {ForLoop(next, cfg, name, filters, i + 1, answers) :
                              next \in {LoopBody(st, cfg, name, filters[i], answer)}} : TRUE

(***************************************************************************)
(* get_records, lines 28-83, run alone on a resolver configured cfg:       *)
(* the configuration it leaves, the map it returns, the queries it sent.   *)
(***************************************************************************)
get_records(cfg, name, filters, dns_server, answers) ==
    LET keys == UnwrapOr(filters, DEFAULT_RECORDS)
        cfg2 == update_nameservers(cfg, dns_server)
        st == ForLoop([results |-> EmptyMap, lookups |-> <<>>],
                      cfg2, name, keys, 1, answers)
    IN  [config |-> cfg2, results |-> st.results, lookups |-> st.lookups]

(***************************************************************************)
(* Inputs.                                                                 *)
(***************************************************************************)
Alphabet == {"a", ".", "@", " ", "/"}

Identifiers == SeqsUpTo(Alphabet, MaxLen)

\* "a.a", "a@a.a", "a a", ""
SampleNames ==
    { <<"a", ".", "a">>, <<"a", "@", "a", ".", "a">>, <<"a", " ", "a">>, <<>> }

Keys == {"pgp", "nostr"}

FilterArgs == {None} \cup {Some(f) : f \in SeqsUpTo(Keys, MaxKeys)}

\* omitted, "1.1.1.1", "not-an-ip", "1.1.1.256"
DnsArgs ==
    { None,
      Some(<<"1", ".", "1", ".", "1", ".", "1">>),
      Some(<<"n", "o", "t", "-", "a", "n", "-", "i", "p">>),
      Some(<<"1", ".", "1", ".", "1", ".", "2", "5", "6">>) }

\* TXT records: "v=1" and "k=" "abc"
TxtRecords == { <<Lit("v=1")>>, <<Lit("k="), Lit("abc")>> }

\* an answer is a failure or the records of one RRset (no record twice),
\* in the order the library returns them
RecordLists ==
    {rs \in SeqsUpTo(TxtRecords, MaxRecs) :
        \A i, j \in 1..Len(rs) : i # j => rs[i] # rs[j]}

Answers == {Err("NXDOMAIN")} \cup {Ok(rs) : rs \in RecordLists}

\* the inputs of the runs over every identifier
ShapeFilters == {Some(<<"pgp", "nostr">>)}

ShapeAnswers == {Err("NXDOMAIN"), Ok(<< <<Lit("v=1")>> >>)}

\* the inputs of the concurrent callers: "a.a", "a a"; "1.1.1.1", "9.9.9.9"
ConcNames == { <<"a", ".", "a">>, <<"a", " ", "a">> }

ConcFilters == {Some(<<"pgp">>), Some(<<"pgp", "nostr">>)}

ConcDns ==
    { Some(<<"1", ".", "1", ".", "1", ".", "1">>),
      Some(<<"9", ".", "9", ".", "9", ".", "9">>) }

Threads == {1, 2}

(***************************************************************************)
(* State.                                                                  *)
(*   config  the nameserver configuration of the one resolver instance     *)
(*   call    <<>>, or the one finished call of the sequential caller with  *)
(*           its arguments, the configuration it started from, the map it  *)
(*           returned and the queries it sent                              *)
(*   thr     the position of each concurrent caller inside get_records     *)
(***************************************************************************)
Idle ==
    [pc |-> "idle", name |-> <<>>, keys |-> <<>>, dns_server |-> None,
     i |-> 0, results |-> EmptyMap, lookups |-> <<>>]

Init ==
    /\ config = ResolverConfig_default
    /\ call = <<>>
    /\ thr = [t \in Threads |-> Idle]

(***************************************************************************)
(* A caller runs get_records from entry to return with no other call in    *)
(* between (as main does, line 129).                                       *)
(***************************************************************************)
GetRecords(name, filters, dns_server, answers) ==
    /\ \E out \in {get_records(config, name, filters, dns_server, answers)} :
           /\ Len(out.lookups) = Len(answers)
           /\ config' = out.config
           /\ call' = << [name |-> name, filters |-> filters,
                          dns_server |-> dns_server, answers |-> answers,
                          start |-> config, results |-> out.results,
                          lookups |-> out.lookups] >>
    /\ UNCHANGED thr

\* the caller is done with the returned map (line 130)
TakeRecords ==
    /\ call # <<>>
    /\ call' = <<>>
    /\ UNCHANGED <<config, thr>>

\* the environment answers the queries a call sends, one answer each
AnswersFor(name, filters, dns_server, answerSet) ==
    LET sent == Len(get_records(config, name, filters, dns_server, <<>>).lookups)
    IN  [1..sent -> answerSet]

SampleCall ==
    /\ call = <<>>
    /\ \E name \in SampleNames, filters \in FilterArgs, dns_server \in DnsArgs :
          \E answers \in AnswersFor(name, filters, dns_server, Answers) :
              GetRecords(name, filters, dns_server, answers)

Next == SampleCall \/ TakeRecords

Spec == Init /\ [][Next]_vars

(***************************************************************************)
(* The same caller, over every identifier of at most MaxLen characters.    *)
(***************************************************************************)
ShapeCall ==
    /\ call = <<>>
    /\ \E name \in Identifiers, filters \in ShapeFilters :
          \E answers \in AnswersFor(name, filters, None, ShapeAnswers) :
              GetRecords(name, filters, None, answers)

NextShape == ShapeCall \/ TakeRecords

SpecShape == Init /\ [][NextShape]_vars

(***************************************************************************)
(* Concurrent callers on the one instance (get_records takes &self).  A    *)
(* caller's steps are the points where it touches the shared resolver:     *)
(* update_nameservers (line 36) and each txt_lookup (line 86).             *)
(***************************************************************************)
\* lines 29-32
Enter(t, name, filters, dns_server) ==
    /\ thr[t].pc = "idle"
    /\ thr' = [thr EXCEPT ![t] =
                  [pc |-> "update", name |-> name,
                   keys |-> UnwrapOr(filters, DEFAULT_RECORDS),
                   dns_server |-> dns_server, i |-> 1,
                   results |-> EmptyMap, lookups |-> <<>>]]
    /\ UNCHANGED <<config, call>>

\* lines 35-43
UpdateNameservers(t) ==
    /\ thr[t].pc = "update"
    /\ config' = update_nameservers(config, thr[t].dns_server)
    /\ thr' = [thr EXCEPT ![t].pc = "loop"]
    /\ UNCHANGED call

\* lines 45-80, one key
Iterate(t, answer) ==
    /\ thr[t].pc = "loop"
    /\ thr[t].i <= Len(thr[t].keys)
    /\ \E st \in {LoopBody([results |-> thr[t].results, lookups |-> thr[t].lookups],
                            config, thr[t].name, thr[t].keys[thr[t].i], answer)} :
          thr' = [thr EXCEPT ![t].i = @ + 1,
                             ![t].results = st.results,
                             ![t].lookups = st.lookups]
    /\ UNCHANGED <<config, call>>

\* line 82
Leave(t) ==
    /\ thr[t].pc = "loop"
    /\ thr[t].i > Len(thr[t].keys)
    /\ thr' = [thr EXCEPT ![t] = Idle]
    /\ UNCHANGED <<config, call>>

ConcEnter ==
    \E t \in Threads, name \in ConcNames, filters \in ConcFilters,
       dns_server \in ConcDns : Enter(t, name, filters, dns_server)

ConcUpdate == \E t \in Threads : UpdateNameservers(t)

ConcIterate == \E t \in Threads, answer \in ShapeAnswers : Iterate(t, answer)

ConcLeave == \E t \in Threads : Leave(t)

NextConc == ConcEnter \/ ConcUpdate \/ ConcIterate \/ ConcLeave

SpecConc == Init /\ [][NextConc]_vars

(***************************************************************************)
(* Properties of a finished call.                                          *)
(***************************************************************************)
Returned == call # <<>>

TheCall == call[1]

RequestedKeys == UnwrapOr(TheCall.filters, DEFAULT_RECORDS)

\* the identifier of the call passes validation for key k (lines 46-49)
PassesValidation(k) ==
    ~ValidationFails(validate_domain_or_subdomain(k, TheCall.name),
                     validate_email_address(k, TheCall.name))

\* the per-key outcome with only an error / only a value
ErrorOutcome(msg) == [value |-> None, error |-> Some(msg)]
ValueOutcome(v) == [value |-> Some(v), error |-> None]

\* the call was given a nameserver argument that does not parse as IPv4
OverrideInvalid ==
    /\ IsSome(TheCall.dns_server)
    /\ ~IsOk(Ipv4Addr_from_str(Unwrap(TheCall.dns_server)))

\* the call was given a nameserver argument that parses as IPv4
OverrideValid ==
    /\ IsSome(TheCall.dns_server)
    /\ IsOk(Ipv4Addr_from_str(Unwrap(TheCall.dns_server)))

\* C1: the map get_records returns has exactly the distinct requested keys
\* as its key set, whatever failed for any key.
C1_KeySetEqualsRequested ==
    Returned => DOMAIN TheCall.results = Range(RequestedKeys)

\* a call of two different keys where the first key's lookup failed and the
\* second key got a value
C1_Witness ==
    /\ Returned
    /\ Len(RequestedKeys) = 2
    /\ RequestedKeys[1] # RequestedKeys[2]
    /\ Len(TheCall.lookups) = 2
    /\ ~IsOk(TheCall.lookups[1].answer)
    /\ IsSome(TheCall.results[RequestedKeys[2]]["value"])

\* C2: every per-key outcome of a returned map has a "value" and an "error"
\* field, and exactly one of the two is non-null.
C2_ExactlyOneOfValueError ==
    Returned =>
        \A k \in DOMAIN TheCall.results :
            /\ DOMAIN TheCall.results[k] = {"value", "error"}
            /\ IsSome(TheCall.results[k]["value"]) # IsSome(TheCall.results[k]["error"])

\* a call of the four default keys that met a lookup failure, an empty
\* answer and a non-empty answer
C2_Witness ==
    /\ Returned
    /\ TheCall.filters = None
    /\ \E i, j, k \in 1..Len(TheCall.lookups) :
          /\ ~IsOk(TheCall.lookups[i].answer)
          /\ TheCall.lookups[j].answer = Ok(<<>>)
          /\ IsOk(TheCall.lookups[k].answer) /\ Len(TheCall.lookups[k].answer[2]) = 2

\* a call with a name that fails validation: the fourth branch of C2
C2_WitnessValidation ==
    /\ Returned
    /\ Len(RequestedKeys) > 0
    /\ \A i \in 1..Len(RequestedKeys) : ~PassesValidation(RequestedKeys[i])

(***************************************************************************)
(* C4 and C9: the nameserver argument.                                     *)
(***************************************************************************)
\* what the finished call did: configuration left, map returned, queries sent
Outcome == [config |-> config, results |-> TheCall.results, lookups |-> TheCall.lookups]

\* the same call with the nameserver argument omitted
OutcomeOmitted ==
    get_records(TheCall.start, TheCall.name, TheCall.filters, None, TheCall.answers)

Google8888 ==
    ResolverConfig_from_parts(None, <<NameServerConfig(<<8, 8, 8, 8>>, "Udp")>>)

\* C4 as stated: a call with an override that is no IPv4 address does what the
\* same call with the override omitted does: same nameserver for its lookups,
\* same configuration left, same result.
C4_InvalidOverrideAsOmitted ==
    (Returned /\ OverrideInvalid) => Outcome = OutcomeOmitted

\* C4 amended: a call with an override that is no IPv4 address leaves the
\* configuration as it found it and sends every lookup to the nameservers
\* configured when it began; it does what the call with the override omitted
\* does when that configuration is 8.8.8.8:53 over UDP, the one an omitted
\* override sets.
C4_InvalidOverrideKeepsConfig ==
    (Returned /\ OverrideInvalid) =>
        /\ config = TheCall.start
        /\ \A i \in 1..Len(TheCall.lookups) :
              TheCall.lookups[i].name_servers = TheCall.start.name_servers
        /\ (TheCall.start = Google8888 => Outcome = OutcomeOmitted)
        /\ TheCall.results = OutcomeOmitted.results

\* a call with "not-an-ip" that sent lookups, on a resolver that an earlier
\* call had set to 8.8.8.8
C4_Witness ==
    /\ Returned /\ OverrideInvalid
    /\ TheCall.start = Google8888
    /\ Len(TheCall.lookups) > 0

\* C9: in calls that do not overlap, every lookup of a call goes to one
\* nameserver fixed before the first lookup: the override at port 53 when it
\* parses as IPv4, the nameservers configured when the call began (left
\* unchanged) when it does not.
C9_LookupsUseOneNameserver ==
    Returned =>
        /\ OverrideValid =>
              \A i \in 1..Len(TheCall.lookups) :
                  /\ Len(TheCall.lookups[i].name_servers) = 1
                  /\ TheCall.lookups[i].name_servers[1].socket_addr =
                        <<Ipv4Addr_from_str(Unwrap(TheCall.dns_server))[2], 53>>
        /\ OverrideInvalid =>
              /\ config = TheCall.start
              /\ \A i \in 1..Len(TheCall.lookups) :
                    TheCall.lookups[i].name_servers = TheCall.start.name_servers

\* a call with override "1.1.1.1" that sent two lookups, on a resolver whose
\* configuration was another one
C9_Witness ==
    /\ Returned /\ OverrideValid
    /\ Len(TheCall.lookups) >= 2
    /\ TheCall.start # config
    /\ TheCall.start # ResolverConfig_default

\* a call with an invalid override on a resolver an earlier call had set to
\* 1.1.1.1
C9_WitnessInvalid ==
    /\ Returned /\ OverrideInvalid
    /\ Len(TheCall.lookups) >= 2
    /\ TheCall.start # ResolverConfig_default
    /\ TheCall.start # Google8888

(***************************************************************************)
(* C8: lookups and outcomes.                                               *)
(***************************************************************************)
\* the text of a TXT record, and of the records of an answer joined by one
\* space in the order of the answer
RECURSIVE RecordText(_)
RecordText(txt) ==
    IF Len(txt) = 0 THEN <<>>
    ELSE RecordText(Slice(txt, 1, Len(txt) - 1)) \o txt[Len(txt)]

RECURSIVE SpaceJoined(_)
SpaceJoined(rs) ==
    IF Len(rs) = 1 THEN RecordText(rs[1])
    ELSE SpaceJoined(Slice(rs, 1, Len(rs) - 1)) \o <<" ">> \o RecordText(rs[Len(rs)])

\* outcome is what the claim gives a key whose lookup was answered by answer
OutcomeMatches(outcome, answer) ==
    IF IsOk(answer)
    THEN IF Len(answer[2]) = 0
         THEN outcome = ErrorOutcome(Lit("No TXT records found"))
         ELSE outcome = ValueOutcome(SpaceJoined(answer[2]))
    ELSE /\ DOMAIN outcome = {"value", "error"}
         /\ outcome["value"] = None
         /\ IsSome(outcome["error"])
         /\ answer[2] \in Range(Unwrap(outcome["error"]))

LookupsOfKey(k) == {j \in 1..Len(TheCall.lookups) : TheCall.lookups[j].key = k}

\* the positions of the key list whose key passes validation, in order
PassingPositions ==
    SelectSeq([i \in 1..Len(RequestedKeys) |-> i],
              LAMBDA i : PassesValidation(RequestedKeys[i]))

\* C8 as stated: for every requested key that passes validation exactly one
\* TXT lookup is sent, for the key's query name, and the key's outcome is
\* the one that lookup's answer gives: "No TXT records found" for no record,
\* the records joined by a space for one or more, an error carrying the
\* failure for a failed lookup.
C8_OneLookupPerKey ==
    Returned =>
        \A k \in Range(RequestedKeys) :
            PassesValidation(k) =>
                /\ Cardinality(LookupsOfKey(k)) = 1
                /\ \A j \in LookupsOfKey(k) :
                      /\ TheCall.lookups[j].name = get_txt_record_key(TheCall.name, k)
                      /\ OutcomeMatches(TheCall.results[k], TheCall.lookups[j].answer)

\* C8 amended: exactly one TXT lookup is sent for every occurrence of a key in
\* the requested list (a key listed twice is looked up twice), each for the
\* key's query name, in list order; the key's outcome is the one the answer
\* to the lookup of its last occurrence gives.
C8_OneLookupPerOccurrence ==
    Returned =>
        /\ Len(TheCall.lookups) = Len(PassingPositions)
        /\ \A j \in 1..Len(TheCall.lookups) :
              /\ TheCall.lookups[j].key = RequestedKeys[PassingPositions[j]]
              /\ TheCall.lookups[j].name =
                    get_txt_record_key(TheCall.name, TheCall.lookups[j].key)
              /\ TheCall.lookups[j].answer = TheCall.answers[j]
        /\ \A k \in Range(RequestedKeys) :
              PassesValidation(k) =>
                  /\ LookupsOfKey(k) # {}
                  /\ \E last \in LookupsOfKey(k) :
                        /\ \A j \in LookupsOfKey(k) : j <= last
                        /\ OutcomeMatches(TheCall.results[k], TheCall.lookups[last].answer)

\* a call that lists one key twice: its first lookup failed, its second
\* returned two records
C8_Witness ==
    /\ Returned
    /\ Len(RequestedKeys) = 2
    /\ RequestedKeys[1] = RequestedKeys[2]
    /\ Len(TheCall.lookups) = 2
    /\ ~IsOk(TheCall.lookups[1].answer)
    /\ IsOk(TheCall.lookups[2].answer)
    /\ Len(TheCall.lookups[2].answer[2]) = 2

(***************************************************************************)
(* C5, C6, C7, C10: identifier shapes, as the claims word them.            *)
(***************************************************************************)
CountOf(s, c) == Cardinality({i \in 1..Len(s) : s[i] = c})

ExactlyOneAt(s) == CountOf(s, "@") = 1

\* local@domain: non-empty local part, non-empty domain with at least one
\* dot, no whitespace
EmailShape(s) ==
    /\ ExactlyOneAt(s)
    /\ \A i \in 1..Len(s) : s[i] \notin Whitespace
    /\ LET at == CHOOSE i \in 1..Len(s) : s[i] = "@"
       IN  /\ at > 1
           /\ at < Len(s)
           /\ \E i \in (at + 1)..Len(s) : s[i] = "."

\* two or more dot-separated labels, each made only of alphanumerics, hyphen
\* or underscore (read at its weakest: a label may be empty)
DomainShape(s) ==
    /\ \A i \in 1..Len(s) : s[i] \in LabelChar \cup {"."}
    /\ \E i \in 1..Len(s) : s[i] = "."

EmailMessage == "Invalid email name for key: "

DomainMessage == "Invalid domain or subdomain name for key: "

\* every requested key has the error outcome prefix <key> and no lookup was
\* sent
AllKeysRejectedWith(prefix) ==
    /\ TheCall.lookups = <<>>
    /\ \A i \in 1..Len(RequestedKeys) :
          /\ RequestedKeys[i] \in DOMAIN TheCall.results
          /\ TheCall.results[RequestedKeys[i]] =
                ErrorOutcome(Lit(prefix) \o Lit(RequestedKeys[i]))

\* C5: an identifier with exactly one "@" that is not of the email shape gets
\* "Invalid email name for key: <key>" for every requested key, and no lookup.
C5_EmailShapeError ==
    (Returned /\ ExactlyOneAt(TheCall.name) /\ ~EmailShape(TheCall.name)) =>
        AllKeysRejectedWith(EmailMessage)

\* "<local>.user._<k>.<domain>" for local@domain, "_<k>.<identifier>" otherwise
QueryName(name, k) ==
    IF ExactlyOneAt(name)
    THEN LET at == CHOOSE i \in 1..Len(name) : name[i] = "@"
         IN  Slice(name, 1, at - 1) \o <<".", "u", "s", "e", "r", ".", "_">> \o Lit(k)
                 \o <<".">> \o Slice(name, at + 1, Len(name))
    ELSE <<"_">> \o Lit(k) \o <<".">> \o name

\* C6: every lookup of a call is for "<local>.user._<k>.<domain>" when the
\* identifier has exactly one "@", and for "_<k>.<identifier>", the whole
\* identifier kept, in every other case.
C6_QueryName ==
    Returned =>
        \A j \in 1..Len(TheCall.lookups) :
            TheCall.lookups[j].name = QueryName(TheCall.name, TheCall.lookups[j].key)

\* the identifier of the call fails both checks of lines 46-47 for every key
FailsBothChecks ==
    \A i \in 1..Len(RequestedKeys) :
        /\ IsSome(validate_domain_or_subdomain(RequestedKeys[i], TheCall.name))
        /\ IsSome(validate_email_address(RequestedKeys[i], TheCall.name))

\* C7: when the identifier fails both the domain check and the email check,
\* every requested key gets "Invalid domain or subdomain name for key: <key>"
\* (the domain message, not the email message) and no lookup is sent.
C7_DomainMessageWins ==
    (Returned /\ FailsBothChecks) => AllKeysRejectedWith(DomainMessage)

\* a call for two keys with an identifier of one "@" that fails both checks
C7_Witness ==
    /\ Returned /\ FailsBothChecks
    /\ ExactlyOneAt(TheCall.name)
    /\ Len(TheCall.name) = MaxLen
    /\ Cardinality(DOMAIN TheCall.results) = 2

\* C10: an identifier that does not have exactly one "@" is looked up only
\* when the whole of it is two or more labels of alphanumerics, hyphen or
\* underscore joined by dots; any other gets "Invalid domain or subdomain
\* name for key: <key>" for every key and no lookup.
C10_DomainShapeGate ==
    (Returned /\ ~ExactlyOneAt(TheCall.name) /\ ~DomainShape(TheCall.name)) =>
        AllKeysRejectedWith(DomainMessage)

(***************************************************************************)
(* C3: concurrent callers.                                                 *)
(***************************************************************************)
\* C3: every lookup sent by a call that supplied a valid override went to
\* that override, whatever another call on the same instance does meanwhile.
C3_NoCrossContamination ==
    \A t \in Threads :
        (thr[t].pc # "idle" /\ IsSome(thr[t].dns_server)
            /\ IsOk(Ipv4Addr_from_str(Unwrap(thr[t].dns_server)))) =>
            \A j \in 1..Len(thr[t].lookups) :
                thr[t].lookups[j].name_servers =
                    <<NameServerConfig(Ipv4Addr_from_str(Unwrap(thr[t].dns_server))[2], "Udp")>>
====
